---------------------------- MODULE Spec2Model ----------------------------
(***************************************************************************)
(* floppy-brick: falling tetrominoes as jointed rigid bodies.              *)
(*                                                                         *)
(* Physics coordinates, anchors and extents are f32 multiples of 0.5 in    *)
(* the program; the model stores each of them as TWICE its value, so that  *)
(* 0.5 is 1, 10.5 is 21 and all the arithmetic stays in the integers (it   *)
(* is exact in f32 as well for the magnitudes modelled here).              *)
(***************************************************************************)
EXTENDS Integers, Sequences, FiniteSets

\* ------------------------------------------------------------ constants
FLOOR_BLOCK_HEIGHT == 2
BLOCK_MASS == 1
BLOCK_LINEAR_DAMPING == 1
\* a force, not a coordinate: not doubled
MOVEMENT_FORCE == 20
N_LANES == 10
N_ROWS == 20

\* ------------------------------------------------------------ bounds
\* number of pieces assembled in one run (initial piece included); all but the
\* last of them are played until they settle
MaxPieces == 3
\* piece-local / board coordinates given to the transform are in -MaxCoord..MaxCoord
MaxCoord == 2
\* lane and row counts tried besides the 10 x 20 board: 1..MaxBoard
MaxBoard == 3

\* ------------------------------------------------------------ catalog
TetrominoKind == {"I", "O", "T", "J", "L", "S", "Z"}

\* TetrominoKind::layout of tetromino.rs (a second copy of the table).
tetromino_layout(kind) ==
    CASE kind = "I" -> [coords |-> << <<1, 1>>, <<1, 0>>, <<1, -1>>, <<1, -2>> >>,
                        joints |-> << <<0, 1>>, <<1, 2>>, <<2, 3>> >>]
      [] kind = "O" -> [coords |-> << <<0, 0>>, <<1, 0>>, <<1, -1>>, <<0, -1>> >>,
                        joints |-> << <<0, 1>>, <<1, 2>>, <<2, 3>>, <<1, 0>> >>]
      [] kind = "T" -> [coords |-> << <<0, 0>>, <<1, 0>>, <<2, 0>>, <<1, -1>> >>,
                        joints |-> << <<0, 1>>, <<1, 2>>, <<1, 3>> >>]
      [] kind = "J" -> [coords |-> << <<1, 0>>, <<1, -1>>, <<1, -2>>, <<0, -2>> >>,
                        joints |-> << <<0, 1>>, <<1, 2>>, <<2, 3>> >>]
      [] kind = "L" -> [coords |-> << <<1, 0>>, <<1, -1>>, <<1, -2>>, <<2, -2>> >>,
                        joints |-> << <<0, 1>>, <<1, 2>>, <<2, 3>> >>]
      [] kind = "S" -> [coords |-> << <<0, -1>>, <<1, -1>>, <<1, 0>>, <<2, 0>> >>,
                        joints |-> << <<0, 1>>, <<1, 2>>, <<2, 3>> >>]
      [] kind = "Z" -> [coords |-> << <<0, 0>>, <<1, 0>>, <<1, -1>>, <<2, -1>> >>,
                        joints |-> << <<0, 1>>, <<1, 2>>, <<2, 3>> >>]

\* a table whose J entry was copied from L and not edited
layout_J_copied_from_L(kind) == tetromino_layout(IF kind = "J" THEN "L" ELSE kind)

\* a table whose T entry joins blocks 1 and 2 twice and leaves block 3 loose
layout_T_detached(kind) ==
    IF kind = "T"
    THEN [coords |-> << <<0, 0>>, <<1, 0>>, <<2, 0>>, <<1, -1>> >>,
          joints |-> << <<0, 1>>, <<1, 2>>, <<2, 1>> >>]
    ELSE tetromino_layout(kind)

\* a table whose S entry has its last cell one row too high
layout_S_diagonal(kind) ==
    IF kind = "S"
    THEN [coords |-> << <<0, -1>>, <<1, -1>>, <<1, 0>>, <<2, 1>> >>,
          joints |-> << <<0, 1>>, <<1, 2>>, <<2, 3>> >>]
    ELSE tetromino_layout(kind)

\* TetrominoKind::layout of main.rs. coords is the [IVector; 4] array (index k
\* of the source is element k+1 here), joints the Vec of 0-based index pairs.
layout(kind) ==
    CASE kind = "I" -> [coords |-> << <<1, 1>>, <<1, 0>>, <<1, -1>>, <<1, -2>> >>,
                        joints |-> << <<0, 1>>, <<1, 2>>, <<2, 3>> >>]
      [] kind = "O" -> [coords |-> << <<0, 0>>, <<1, 0>>, <<1, -1>>, <<0, -1>> >>,
                        joints |-> << <<0, 1>>, <<1, 2>>, <<2, 3>>, <<1, 0>> >>]
      [] kind = "T" -> [coords |-> << <<0, 0>>, <<1, 0>>, <<2, 0>>, <<1, -1>> >>,
                        joints |-> << <<0, 1>>, <<1, 2>>, <<1, 3>> >>]
      [] kind = "J" -> [coords |-> << <<1, 0>>, <<1, -1>>, <<1, -2>>, <<0, -2>> >>,
                        joints |-> << <<0, 1>>, <<1, 2>>, <<2, 3>> >>]
      [] kind = "L" -> [coords |-> << <<1, 0>>, <<1, -1>>, <<1, -2>>, <<2, -2>> >>,
                        joints |-> << <<0, 1>>, <<1, 2>>, <<2, 3>> >>]
      [] kind = "S" -> [coords |-> << <<0, -1>>, <<1, -1>>, <<1, 0>>, <<2, 0>> >>,
                        joints |-> << <<0, 1>>, <<1, 2>>, <<2, 3>> >>]
      [] kind = "Z" -> [coords |-> << <<0, 0>>, <<1, 0>>, <<1, -1>>, <<2, -1>> >>,
                        joints |-> << <<0, 1>>, <<1, 2>>, <<2, 3>> >>]

\* ------------------------------------------------------------ transform
\* Game::floor_y: -(n_rows as f32) * 0.5, stored doubled.
floor_y(self) == -(self.n_rows)

\* Game::left_edge_x: -(n_lanes as f32) * 0.5, stored doubled.
left_edge_x(self) == -(self.n_lanes)

\* Game::translate_to_board_center_top: i32 arithmetic, n_lanes as i32 / 2.
translate_to_board_center_top(self, coord) ==
    LET x == coord[1] + (self.n_lanes \div 2)
        y == coord[2] + self.n_rows
    IN  <<x, y>>

\* a transform that forgets the half-cell offset of the collider centre
board_to_physics_no_half(self, coord) ==
    LET x == left_edge_x(self) + 2 * coord[1]
        y == floor_y(self) + 2 * coord[2]
    IN  <<x, y>>

\* Game::board_to_physics: left_edge_x + col + 0.5, floor_y + row + 0.5, doubled.
board_to_physics(self, coord) ==
    LET x == left_edge_x(self) + 2 * coord[1] + 1
        y == floor_y(self) + 2 * coord[2] + 1
    IN  <<x, y>>

\* ------------------------------------------------------------ state
VARIABLES
    pc,          \* the system the schedule built in main runs next
    stepped,     \* the physics plugin has stepped the world in the current tick
    game,        \* the Game resource
    commands,    \* the Commands queue: spawns and despawns wait for the end of the stage
    next_entity, \* the next Entity the world reserves (entities are numbered from 1)
    next_material, \* the next Handle<ColorMaterial> that materials.add returns
    blocks,      \* world: block entity -> its rigid body builder, collider and material
    joints,      \* world: joint entity -> the BallJoint it carries
    floor,       \* world: the static floor body (<<>> before setup_board)
    registered,  \* block entities that have a RigidBodyHandleComponent and a body in the RigidBodySet
    sleeping,    \* registered bodies for which RigidBody::is_sleeping holds
    pressed,     \* the keys the last tetromino_movement found pressed
    movement,    \* the lateral intent the last tetromino_movement computed
    applied,     \* the apply_force calls of the current tick: <<entity, fx, fy>>
    pieces,      \* history: every piece spawn_tetromino assembled, oldest first
    despawned,   \* history: the entities despawned so far, in order
    arg, ret     \* input and result of a single call of a pure function

vars == <<pc, stepped, game, commands, next_entity, next_material, blocks, joints,
          floor, registered, sleeping, pressed, movement, applied, pieces, despawned,
          arg, ret>>

\* Option::None of block_color and camera
None == 0

\* impl Default for Game
Game_default ==
    [n_lanes |-> N_LANES,
     n_rows |-> N_ROWS,
     block_color |-> None,
     current_tetromino_blocks |-> {},
     current_tetromino_joints |-> <<>>,
     camera |-> None]

\* ------------------------------------------------------------ assembler
\* spawn_block: the spawn command of one block on entity ent, a dynamic body
\* with a cuboid collider of half extents (0.5, 0.5). The kind is not used by
\* the body of the function.
spawn_block(self, ent, kind, tetromino_coord) ==
    [op |-> "spawn_block",
     entity |-> ent,
     translation |-> board_to_physics(self, translate_to_board_center_top(self, tetromino_coord)),
     mass |-> BLOCK_MASS,
     linear_damping |-> BLOCK_LINEAR_DAMPING,
     half_extents |-> <<1, 1>>,
     material |-> self.block_color]

\* the coordinate spawn_tetromino hands to spawn_block for block k (0-based):
\* the closure ignores its argument and passes coords[0].
block_coord(coords, k) == coords[0 + 1]

\* a joint closure that gives both anchors the same sign
spawn_joint_same_anchor(ent, coords, block_entities, ij) ==
    LET i == ij[1]
        j == ij[2]
        x_dir == coords[j + 1][1] - coords[i + 1][1]
        y_dir == coords[j + 1][2] - coords[i + 1][2]
    IN  [op |-> "spawn_joint",
         entity |-> ent,
         anchor_1 |-> <<x_dir, y_dir>>,
         anchor_2 |-> <<x_dir, y_dir>>,
         body1 |-> block_entities[i + 1],
         body2 |-> block_entities[j + 1]]

\* the joint closure of spawn_tetromino: anchors are +-0.5 * (coords[j] - coords[i])
spawn_joint(ent, coords, block_entities, ij) ==
    LET i == ij[1]
        j == ij[2]
        x_dir == coords[j + 1][1] - coords[i + 1][1]
        y_dir == coords[j + 1][2] - coords[i + 1][2]
    IN  [op |-> "spawn_joint",
         entity |-> ent,
         anchor_1 |-> <<x_dir, y_dir>>,
         anchor_2 |-> <<-x_dir, -y_dir>>,
         body1 |-> block_entities[i + 1],
         body2 |-> block_entities[j + 1]]

\* an assembler that extends the recorded piece instead of replacing it
assembled_game_extend(g, block_entities, joint_entities) ==
    [g EXCEPT !.current_tetromino_blocks =
                  @ \cup {block_entities[k] : k \in DOMAIN block_entities},
              !.current_tetromino_joints = @ \o joint_entities]

\* an assembler that records the new blocks and forgets the joints
assembled_game_blocks_only(g, block_entities, joint_entities) ==
    [g EXCEPT !.current_tetromino_blocks = {block_entities[k] : k \in DOMAIN block_entities}]

\* the last two statements of spawn_tetromino: the Game records the new piece
\* in place of the old one (the blocks collected into a HashSet, the joints
\* into a Vec)
assembled_game(g, block_entities, joint_entities) ==
    [g EXCEPT !.current_tetromino_blocks = {block_entities[k] : k \in DOMAIN block_entities},
              !.current_tetromino_joints = joint_entities]

\* spawn_tetromino with the kind TetrominoKind::random() drew, run on the Game g
\* and the command queue cmds the caller has reached. A block spawned while
\* block_color is None panics in spawn_block (Option::unwrap); otherwise the
\* schedule goes on with then_pc.
spawn_tetromino(kind, g, cmds, then_pc) ==
    LET lay == layout(kind)
        block_entities == [k \in 1..4 |-> next_entity + (k - 1)]
        block_cmds == [k \in 1..4 |->
                         spawn_block(g, block_entities[k], kind, block_coord(lay.coords, k - 1))]
        n_joints == Len(lay.joints)
        joint_entities == [n \in 1..n_joints |-> next_entity + 4 + (n - 1)]
        joint_cmds == [n \in 1..n_joints |->
                         spawn_joint(joint_entities[n], lay.coords, block_entities, lay.joints[n])]
    IN  IF g.block_color = None
        THEN /\ pc' = "panicked"
             /\ game' = g
             /\ commands' = cmds
             /\ UNCHANGED <<next_entity, pieces>>
        ELSE /\ pc' = then_pc
             /\ commands' = cmds \o block_cmds \o joint_cmds
             /\ next_entity' = next_entity + 4 + n_joints
             /\ game' = assembled_game(g, block_entities, joint_entities)
             /\ pieces' = Append(pieces, [kind |-> kind,
                                          blocks |-> block_entities,
                                          joints |-> joint_entities,
                                          color |-> g.block_color])

\* ------------------------------------------------------------ startup
Init ==
    /\ pc = "setup_game"
    /\ stepped = FALSE
    /\ game = Game_default
    /\ commands = <<>>
    /\ next_entity = 1
    /\ next_material = 1
    /\ blocks = <<>>
    /\ joints = <<>>
    /\ floor = <<>>
    /\ registered = {}
    /\ sleeping = {}
    /\ pressed = {}
    /\ movement = 0
    /\ applied = {}
    /\ pieces = <<>>
    /\ despawned = <<>>
    /\ arg = <<>>
    /\ ret = <<>>

\* startup system: a first block color (a fresh material handle) and the camera
setup_game ==
    /\ pc = "setup_game"
    /\ game' = [game EXCEPT !.block_color = next_material, !.camera = next_entity]
    /\ next_material' = next_material + 1
    /\ next_entity' = next_entity + 1
    /\ commands' = Append(commands, [op |-> "spawn_camera", entity |-> next_entity])
    /\ pc' = "setup_board"
    /\ UNCHANGED <<stepped, blocks, joints, floor, registered, sleeping, pressed, movement,
                   applied, pieces, despawned, arg, ret>>

\* a floor whose centre, not its top, is put at floor_y
floor_body_centred_at_floor_y(self) ==
    [translation |-> <<0, floor_y(self)>>,
     half_extents |-> <<self.n_lanes, FLOOR_BLOCK_HEIGHT>>]

\* the static floor of setup_board: a cuboid of half extents (n_lanes * 0.5,
\* FLOOR_BLOCK_HEIGHT * 0.5) centred at (0, floor_y - FLOOR_BLOCK_HEIGHT * 0.5)
floor_body(self) ==
    [translation |-> <<0, floor_y(self) - FLOOR_BLOCK_HEIGHT>>,
     half_extents |-> <<self.n_lanes, FLOOR_BLOCK_HEIGHT>>]

\* startup system
setup_board ==
    /\ pc = "setup_board"
    /\ next_material' = next_material + 1
    /\ next_entity' = next_entity + 1
    /\ commands' = Append(commands, [op |-> "spawn_floor", entity |-> next_entity,
                                     body |-> floor_body(game)])
    /\ pc' = "setup_initial_tetromino"
    /\ UNCHANGED <<stepped, game, blocks, joints, floor, registered, sleeping, pressed, movement,
                   applied, pieces, despawned, arg, ret>>

\* startup system
setup_initial_tetromino ==
    /\ pc = "setup_initial_tetromino"
    /\ \E kind \in TetrominoKind : spawn_tetromino(kind, game, commands, "startup_end")
    /\ UNCHANGED <<stepped, next_material, blocks, joints, floor, registered, sleeping,
                   pressed, movement, applied, despawned, arg, ret>>

\* the two systems registered the other way round
system_order_swapped == <<"tetromino_sleep_detection", "tetromino_movement">>

\* .add_system(tetromino_movement).add_system(tetromino_sleep_detection): both
\* systems write the RigidBodySet, so the update stage runs them one after the
\* other in the order of their registration
system_order == <<"tetromino_movement", "tetromino_sleep_detection">>

\* the place of the schedule that follows a system of the update stage
after_system(name) ==
    IF name = system_order[1] THEN system_order[2] ELSE "update_end"

\* ------------------------------------------------------------ schedule
\* End of a stage (the startup stage, then the update stage of every tick): the
\* queued commands are applied to the world, in order. Spawned entities appear,
\* despawned ones disappear. The update stage ends only after the plugin's
\* world step of the tick has run.
apply_commands ==
    /\ pc \in {"startup_end", "update_end"}
    /\ pc = "update_end" => stepped
    /\ LET idx(o) == {i \in 1..Len(commands) : commands[i].op = o}
           ents(o) == {commands[i].entity : i \in idx(o)}
           cmd(o, e) == commands[CHOOSE i \in idx(o) : commands[i].entity = e]
           component(c) == [f \in DOMAIN c \ {"op", "entity"} |-> c[f]]
           gone == ents("despawn")
           is_despawn(c) == c.op = "despawn"
           despawns == SelectSeq(commands, is_despawn)
       IN  /\ blocks' = [e \in (DOMAIN blocks \cup ents("spawn_block")) \ gone |->
                            IF e \in DOMAIN blocks THEN blocks[e]
                            ELSE component(cmd("spawn_block", e))]
           /\ joints' = [e \in (DOMAIN joints \cup ents("spawn_joint")) \ gone |->
                            IF e \in DOMAIN joints THEN joints[e]
                            ELSE component(cmd("spawn_joint", e))]
           /\ floor' = IF idx("spawn_floor") = {} THEN floor
                       ELSE commands[CHOOSE i \in idx("spawn_floor") : TRUE].body
           /\ despawned' = despawned \o [n \in 1..Len(despawns) |-> despawns[n].entity]
           /\ registered' = registered \ gone
           /\ sleeping' = sleeping \ gone
    /\ commands' = <<>>
    /\ stepped' = FALSE
    /\ pc' = "pre_update"
    /\ UNCHANGED <<game, next_entity, next_material, pressed, movement, applied, pieces,
                   arg, ret>>

\* RapierPhysicsPlugin, before the update stage: every block entity of the world
\* that carries a rigid body builder gets its body (awake) and its
\* RigidBodyHandleComponent. A new tick starts: no force has been applied in it.
\* The run is cut off here once MaxPieces pieces have been assembled: the last
\* of them enters the world and no further tick is explored.
rapier_create_bodies ==
    /\ pc = "pre_update"
    /\ Len(pieces) < MaxPieces
    /\ registered' = DOMAIN blocks
    /\ pressed' = {}
    /\ movement' = 0
    /\ applied' = {}
    /\ pc' = system_order[1]
    /\ UNCHANGED <<stepped, game, commands, next_entity, next_material, blocks, joints,
                   floor, sleeping, pieces, despawned, arg, ret>>

\* RapierPhysicsPlugin, the world step of the tick. main adds the plugin after
\* the two systems and does not fix where in the tick the step runs relative
\* to them, so it may run before tetromino_movement, between the two systems or
\* after tetromino_sleep_detection, once per tick. The step decides which
\* bodies of the active piece are asleep; the program reads no other rest flag.
rapier_step_world ==
    /\ pc \in {"tetromino_movement", "tetromino_sleep_detection", "update_end"}
    /\ ~stepped
    /\ stepped' = TRUE
    /\ \E asleep \in SUBSET (game.current_tetromino_blocks \cap registered) :
           sleeping' = (sleeping \ game.current_tetromino_blocks) \cup asleep
    /\ UNCHANGED <<pc, game, commands, next_entity, next_material, blocks, joints, floor,
                   registered, pressed, movement, applied, pieces, despawned, arg, ret>>

\* ------------------------------------------------------------ movement
\* input.pressed(Right) as i8 - input.pressed(Left) as i8
lateral_intent(right, left) ==
    (IF right THEN 1 ELSE 0) - (IF left THEN 1 ELSE 0)

\* a loop over every body of the RigidBodySet
movable_bodies_all(self, reg) == reg

\* the bodies the loop of tetromino_movement reaches: the active blocks for
\* which the query and the RigidBodySet both answer
movable_bodies(self, reg) == {e \in self.current_tetromino_blocks : e \in reg}

\* the apply_force calls of tetromino_movement for the intent mv
movement_forces(self, reg, mv) ==
    IF mv # 0
    THEN {<<e, mv * MOVEMENT_FORCE, 0>> : e \in movable_bodies(self, reg)}
    ELSE {}

\* an apply_force that leaves the rest flag of the body alone
after_forces_no_wake(slp, forces) == slp

\* apply_force(.., true): wake_up is true, the body that receives the force is
\* awake afterwards; no other rest flag is touched
after_forces(slp, forces) == slp \ {f[1] : f \in forces}

\* a controller that takes the blocks out of the active set as it pushes them
tetromino_movement_game_drained(self) ==
    [self EXCEPT !.current_tetromino_blocks = {}]

\* game: Res<Game>, a shared borrow: the system reads the Game and leaves it
\* as it was
tetromino_movement_game(self) == self

\* system
tetromino_movement ==
    /\ pc = "tetromino_movement"
    /\ \E right \in BOOLEAN, left \in BOOLEAN :
          LET mv == lateral_intent(right, left)
              forces == movement_forces(game, registered, mv)
          IN  /\ pressed' = (IF right THEN {"Right"} ELSE {}) \cup (IF left THEN {"Left"} ELSE {})
              /\ movement' = mv
              /\ applied' = forces
              /\ sleeping' = after_forces(sleeping, forces)
    /\ game' = tetromino_movement_game(game)
    /\ pc' = after_system("tetromino_movement")
    /\ UNCHANGED <<stepped, commands, next_entity, next_material, blocks, joints,
                   floor, registered, pieces, despawned, arg, ret>>

\* ------------------------------------------------------------ settling
\* a detector that settles as soon as one block sleeps (any for all)
all_blocks_sleeping_any(self, reg, slp) ==
    \E block_entity \in self.current_tetromino_blocks :
        IF block_entity \in reg THEN block_entity \in slp ELSE FALSE

\* a detector that asks for a piece before it looks at the rest flags
all_blocks_sleeping_of_a_piece(self, reg, slp) ==
    /\ self.current_tetromino_blocks # {}
    /\ \A block_entity \in self.current_tetromino_blocks :
          IF block_entity \in reg THEN block_entity \in slp ELSE FALSE

\* a detector that takes a block it cannot read for a block at rest
all_blocks_sleeping_unread_at_rest(self, reg, slp) ==
    \A block_entity \in self.current_tetromino_blocks :
       IF block_entity \in reg THEN block_entity \in slp ELSE TRUE

\* the all(..) of tetromino_sleep_detection: a block whose body cannot be
\* looked up counts as not sleeping (unwrap_or(false))
all_blocks_sleeping(self, reg, slp) ==
    \A block_entity \in self.current_tetromino_blocks :
        IF block_entity \in reg THEN block_entity \in slp ELSE FALSE

\* a loop that stops one joint short
despawn_joints_but_last(self) ==
    [n \in 1..(Len(self.current_tetromino_joints) - 1) |->
        [op |-> "despawn", entity |-> self.current_tetromino_joints[n]]]

\* the despawn commands of the settling branch, one per recorded joint, in order
despawn_joints(self) ==
    [n \in 1..Len(self.current_tetromino_joints) |->
        [op |-> "despawn", entity |-> self.current_tetromino_joints[n]]]

\* a detector that keeps the color of the settled piece
recolored_not(g, handle) == g

\* game.block_color = Some(materials.add(..)): the handle is a fresh one
recolored(g, handle) == [g EXCEPT !.block_color = handle]

\* system
tetromino_sleep_detection ==
    /\ pc = "tetromino_sleep_detection"
    /\ IF all_blocks_sleeping(game, registered, sleeping)
       THEN /\ next_material' = next_material + 1
            /\ \E kind \in TetrominoKind :
                  spawn_tetromino(kind,
                                  recolored(game, next_material),
                                  commands \o despawn_joints(game),
                                  after_system("tetromino_sleep_detection"))
       ELSE /\ pc' = after_system("tetromino_sleep_detection")
            /\ UNCHANGED <<game, commands, next_entity, next_material, pieces>>
    /\ UNCHANGED <<stepped, blocks, joints, floor, registered, sleeping, pressed, movement,
                   applied, despawned, arg, ret>>

Next ==
    \/ setup_game
    \/ setup_board
    \/ setup_initial_tetromino
    \/ apply_commands
    \/ rapier_create_bodies
    \/ rapier_step_world
    \/ tetromino_movement
    \/ tetromino_sleep_detection

Spec == Init /\ [][Next]_vars

\* ------------------------------------------------------------ no initial piece
\* A host that runs the per-tick systems although setup_initial_tetromino never
\* ran: the Game holds no piece (Game::default), the world holds no block. The
\* host may or may not have run setup_game (block_color Some or None).
InitNoPiece ==
    /\ pc = "pre_update"
    /\ stepped = FALSE
    /\ \E color \in {None, 1} : game = [Game_default EXCEPT !.block_color = color]
    /\ commands = <<>>
    /\ next_entity = 1
    /\ next_material = 2
    /\ blocks = <<>>
    /\ joints = <<>>
    /\ floor = <<>>
    /\ registered = {}
    /\ sleeping = {}
    /\ pressed = {}
    /\ movement = 0
    /\ applied = {}
    /\ pieces = <<>>
    /\ despawned = <<>>
    /\ arg = <<>>
    /\ ret = <<>>

NextTick ==
    \/ apply_commands
    \/ rapier_create_bodies
    \/ rapier_step_world
    \/ tetromino_movement
    \/ tetromino_sleep_detection

SpecNoPiece == InitNoPiece /\ [][NextTick]_vars

\* ------------------------------------------------------------ late bodies
\* RapierPhysicsPlugin when the engine is behind with body creation: before a
\* tick it has turned some, not necessarily all, of the builders spawned so far
\* into registered bodies. The program does not wait for it: the systems of
\* the tick look every body up and skip (tetromino_movement) or count as awake
\* (tetromino_sleep_detection) the ones they do not find.
rapier_create_some_bodies ==
    /\ pc = "pre_update"
    /\ Len(pieces) < MaxPieces
    /\ \E created \in SUBSET (DOMAIN blocks \ registered) :
          registered' = registered \cup created
    /\ pressed' = {}
    /\ movement' = 0
    /\ applied' = {}
    /\ pc' = system_order[1]
    /\ UNCHANGED <<stepped, game, commands, next_entity, next_material, blocks, joints,
                   floor, sleeping, pieces, despawned, arg, ret>>

NextLateBodies ==
    \/ setup_game
    \/ setup_board
    \/ setup_initial_tetromino
    \/ apply_commands
    \/ rapier_create_some_bodies
    \/ rapier_step_world
    \/ tetromino_movement
    \/ tetromino_sleep_detection

SpecLateBodies == Init /\ [][NextLateBodies]_vars

\* ------------------------------------------------------------ single calls
\* The catalog and the transform are pure functions of a kind, a board
\* configuration and a coordinate. SpecPure draws one input and applies one of
\* them to it.
LaneCounts == (1..MaxBoard) \cup {N_LANES}
RowCounts == (1..MaxBoard) \cup {N_ROWS}
Coords == (-MaxCoord..MaxCoord) \X (-MaxCoord..MaxCoord)

\* the Game a call is made on
arg_game == [Game_default EXCEPT !.n_lanes = arg.n_lanes, !.n_rows = arg.n_rows,
                                 !.block_color = 1]

InitPure ==
    /\ pc = "call"
    /\ stepped = FALSE
    /\ game = Game_default
    /\ commands = <<>>
    /\ next_entity = 0
    /\ next_material = 1
    /\ blocks = <<>>
    /\ joints = <<>>
    /\ floor = <<>>
    /\ registered = {}
    /\ sleeping = {}
    /\ pressed = {}
    /\ movement = 0
    /\ applied = {}
    /\ pieces = <<>>
    /\ despawned = <<>>
    /\ arg \in [kind : TetrominoKind, n_lanes : LaneCounts, n_rows : RowCounts, coord : Coords]
    /\ ret = <<>>

returns(fn, value) ==
    /\ pc = "call"
    /\ pc' = "returned"
    /\ ret' = [fn |-> fn, value |-> value]
    /\ UNCHANGED <<stepped, game, commands, next_entity, next_material, blocks, joints,
                   floor, registered, sleeping, pressed, movement, applied, pieces,
                   despawned, arg>>

call_layout == returns("layout", layout(arg.kind))

call_tetromino_layout == returns("tetromino_layout", tetromino_layout(arg.kind))

call_floor_y == returns("floor_y", floor_y(arg_game))

call_left_edge_x == returns("left_edge_x", left_edge_x(arg_game))

call_translate_to_board_center_top ==
    returns("translate_to_board_center_top", translate_to_board_center_top(arg_game, arg.coord))

call_board_to_physics == returns("board_to_physics", board_to_physics(arg_game, arg.coord))

\* the position spawn_block gives the block of a piece-local coordinate
call_spawn_block ==
    returns("spawn_block", spawn_block(arg_game, 0, arg.kind, arg.coord).translation)

\* the joints spawn_tetromino builds for a kind, on blocks 1..4
call_spawn_joint ==
    LET lay == layout(arg.kind)
    IN  returns("spawn_joint",
                [n \in 1..Len(lay.joints) |->
                    spawn_joint(4 + n, lay.coords, <<1, 2, 3, 4>>, lay.joints[n])])

\* the floor setup_board builds for a board
call_floor_body == returns("floor_body", floor_body(arg_game))

NextPure ==
    \/ call_layout
    \/ call_tetromino_layout
    \/ call_floor_y
    \/ call_left_edge_x
    \/ call_translate_to_board_center_top
    \/ call_board_to_physics
    \/ call_spawn_block
    \/ call_spawn_joint
    \/ call_floor_body

SpecPure == InitPure /\ [][NextPure]_vars

\* ------------------------------------------------------------ claims
Range(f) == {f[i] : i \in DOMAIN f}

\* how often entity e was the target of a despawn, applied or still queued
times_despawned(e) ==
    Cardinality({n \in 1..Len(despawned) : despawned[n] = e})
    + Cardinality({i \in 1..Len(commands) : commands[i].op = "despawn" /\ commands[i].entity = e})

\* the active blocks that report at-rest
at_rest == {e \in game.current_tetromino_blocks : e \in registered /\ e \in sleeping}

\* the state lies between two stages of a tick, after the startup stage
tick_boundary == pc = "pre_update" /\ pieces # <<>>

\* C1: a run of the Settling Detector settles the piece (assembles the next
\* one) if and only if every active block reports at-rest; otherwise the run
\* leaves the block set, the joint collection and the color as they were,
\* queues no despawn and no spawn and reserves no entity.
C1_SettlesIffAllAtRest ==
    [][(pc = "tetromino_sleep_detection" /\ pc' # pc) =>
         LET all_rest == at_rest = game.current_tetromino_blocks
             settles == Len(pieces') = Len(pieces) + 1
         IN  /\ settles <=> all_rest
             /\ ~all_rest => /\ game' = game
                             /\ commands' = commands
                             /\ next_entity' = next_entity
                             /\ pieces' = pieces
                             /\ joints' = joints /\ blocks' = blocks]_vars

\* the detector has just run on a piece with 3 of its 4 blocks at rest (the
\* world step of the tick is still to come, so these are the flags it read),
\* and the piece is still the active one
C1_Witness ==
    /\ pc = "update_end"
    /\ ~stepped
    /\ Cardinality(at_rest) = 3
    /\ Cardinality(game.current_tetromino_blocks) = 4
    /\ commands = <<>>
    /\ Len(pieces) = 1

\* C2: every joint of a settled piece has been the target of exactly one
\* despawn, queued in the tick the piece settled; the joints of the active
\* piece of none; between ticks no despawn is pending and the joints alive in
\* the world are exactly those recorded for the active piece.
C2_JointsDestroyedOnce ==
    /\ \A n \in 1..Len(pieces) : \A j \in Range(pieces[n].joints) :
          times_despawned(j) = (IF n < Len(pieces) THEN 1 ELSE 0)
    /\ pc \in {"pre_update", "tetromino_movement", "tetromino_sleep_detection"} =>
          commands = <<>>
    /\ tick_boundary => /\ DOMAIN joints = Range(game.current_tetromino_joints)
                        /\ Range(despawned) \cap DOMAIN joints = {}

\* a piece has settled and the tick is over: its joints are gone
C2_Witness ==
    /\ tick_boundary
    /\ Len(pieces) = 2
    /\ Range(pieces[1].joints) \subseteq Range(despawned)
    /\ Len(pieces[1].joints) = 4

\* the block entities created so far: in the world or queued for it
created_blocks ==
    DOMAIN blocks \cup {commands[i].entity : i \in {i \in 1..Len(commands) :
                                                     commands[i].op = "spawn_block"}}

\* C3: every assembly creates 4 fresh block entities and no block is ever
\* despawned: after k settlings 4 * (k + 1) blocks have been created, between
\* ticks all of them are in the world, the 4 created last are the active block
\* set and the other 4 * k are the pile.
C3_FourFreshBlocksPerPiece ==
    pieces # <<>> =>
      LET k == Len(pieces) - 1
          newest == {e \in created_blocks :
                        Cardinality({d \in created_blocks : d > e}) < 4}
      IN  /\ Cardinality(created_blocks) = 4 * (k + 1)
          /\ \A n \in 1..Len(pieces) :
                /\ Cardinality(Range(pieces[n].blocks)) = 4
                /\ \A m \in 1..(n - 1) :
                      Range(pieces[n].blocks) \cap Range(pieces[m].blocks) = {}
          /\ \A e \in created_blocks : times_despawned(e) = 0
          /\ game.current_tetromino_blocks = newest
          /\ Cardinality(created_blocks \ game.current_tetromino_blocks) = 4 * k
          /\ tick_boundary => DOMAIN blocks = created_blocks

\* two pieces have settled: 12 blocks in the world, 8 of them pile blocks
C3_Witness ==
    /\ tick_boundary
    /\ Len(pieces) = 3
    /\ Cardinality(DOMAIN blocks) = 12
    /\ Cardinality(DOMAIN blocks \ game.current_tetromino_blocks) = 8

\* C4: whenever the Movement Controller or the Settling Detector is about to
\* run, the Game records one whole piece: 4 distinct blocks, all in the world,
\* and the 3 or 4 joints of that same piece, all in the world, each connecting
\* two of these blocks.
C4_OneWholeActivePiece ==
    pc \in {"tetromino_movement", "tetromino_sleep_detection"} =>
      /\ pieces # <<>>
      /\ LET p == pieces[Len(pieces)]
             bs == game.current_tetromino_blocks
             js == game.current_tetromino_joints
         IN  /\ Cardinality(bs) = 4
             /\ bs = Range(p.blocks)
             /\ bs \subseteq DOMAIN blocks
             /\ js = p.joints
             /\ Len(js) \in {3, 4}
             /\ Cardinality(Range(js)) = Len(js)
             /\ Range(js) = DOMAIN joints
             /\ \A j \in Range(js) : /\ joints[j].body1 \in bs
                                     /\ joints[j].body2 \in bs
                                     /\ joints[j].body1 # joints[j].body2

\* the Movement Controller is about to run on the second piece
C4_Witness ==
    /\ pc = "tetromino_movement"
    /\ Len(pieces) = 2
    /\ Len(game.current_tetromino_joints) = 3

\* C5: a run of the Movement Controller applies the force
\* (intent * MOVEMENT_FORCE, 0) to each block of the active block set and to
\* nothing else when the intent is -1 or +1, and applies no force when the
\* intent is 0; the intent is 0 when both keys or no key is pressed.
C5_ForceOnActiveBlocksOnly ==
    [][(pc = "tetromino_movement" /\ pc' # pc) =>
         LET intent == (IF "Right" \in pressed' THEN 1 ELSE 0)
                       - (IF "Left" \in pressed' THEN 1 ELSE 0)
         IN  /\ movement' = intent
             /\ pressed' = {"Left", "Right"} => intent = 0
             /\ intent = 0 => applied' = {}
             /\ intent # 0 =>
                   /\ {f[1] : f \in applied'} = game.current_tetromino_blocks
                   /\ \A f \in applied' : f[2] = intent * MOVEMENT_FORCE /\ f[3] = 0
                   /\ Cardinality(applied') = 4]_vars

\* the controller pushed the second piece to the right: 4 forces, 4 pile
\* blocks left alone
C5_Witness ==
    /\ pc = "tetromino_sleep_detection"
    /\ movement = 1
    /\ Len(pieces) = 2
    /\ Cardinality(applied) = 4
    /\ Cardinality(registered) = 8
    /\ {f[1] : f \in applied} = game.current_tetromino_blocks

\* the translation and the material a block entity was spawned with
block_spawn(e) ==
    IF e \in DOMAIN blocks THEN blocks[e]
    ELSE commands[CHOOSE i \in 1..Len(commands) :
                     commands[i].op = "spawn_block" /\ commands[i].entity = e]

\* C6: block k of an assembled piece is spawned at the physics position of its
\* own layout coordinate: its offset from block 0 is coords[k] - coords[0], the 4
\* positions are distinct, and on the 10 x 20 board the blocks of an O piece are
\* at board (5,20), (6,20), (6,19), (5,19), i.e. at physics (0.5,10.5),
\* (1.5,10.5), (1.5,9.5), (0.5,9.5) (doubled below).
C6_BlocksAtOwnCoordinates ==
    \A n \in 1..Len(pieces) :
      LET p == pieces[n]
          coords == layout(p.kind).coords
          pos(k) == block_spawn(p.blocks[k]).translation
      IN  /\ \A k \in 1..4 :
                /\ pos(k)[1] - pos(1)[1] = 2 * (coords[k][1] - coords[1][1])
                /\ pos(k)[2] - pos(1)[2] = 2 * (coords[k][2] - coords[1][2])
          /\ Cardinality({pos(k) : k \in 1..4}) = 4
          /\ (p.kind = "O" /\ game.n_lanes = 10 /\ game.n_rows = 20) =>
                <<pos(1), pos(2), pos(3), pos(4)>> =
                    << <<1, 21>>, <<3, 21>>, <<3, 19>>, <<1, 19>> >>

\* C7: the 4 blocks of a piece carry the color handle of that piece, settled
\* pieces included; the color of a piece differs from the color of the piece
\* that settled before it; the Game holds the color of the active piece; and
\* in the settling tick the despawns of the old joints are queued before the
\* spawns of the new piece.
C7_OneFreshColorPerPiece ==
    /\ \A n \in 1..Len(pieces) :
          /\ \A k \in 1..4 : block_spawn(pieces[n].blocks[k]).material = pieces[n].color
          /\ pieces[n].color # None
          /\ n > 1 => pieces[n].color # pieces[n - 1].color
    /\ pieces # <<>> => game.block_color = pieces[Len(pieces)].color
    /\ \A i \in 1..Len(commands), j \in 1..Len(commands) :
          (commands[i].op = "despawn" /\ commands[j].op \in {"spawn_block", "spawn_joint"})
              => i < j

\* a piece has just settled: its joints' despawns and the next piece's blocks
\* are queued, and the new blocks carry a color the settled ones do not
C7_Witness ==
    /\ pc = "update_end"
    /\ Len(pieces) = 2
    /\ Len(commands) >= 7
    /\ commands[1].op = "despawn"
    /\ block_spawn(pieces[2].blocks[4]).material = game.block_color
    /\ blocks[pieces[1].blocks[1]].material # game.block_color

\* C8: translate_to_board_center_top maps (c, r) to (c + n_lanes div 2,
\* r + n_rows); board_to_physics maps (x, y) to (left_edge_x + x + 0.5,
\* floor_y + y + 0.5) with left_edge_x = -n_lanes / 2 and floor_y = -n_rows / 2;
\* on the 10 x 20 board the block of local (0, 0) is placed at (0.5, 10.5).
\* Physics values are doubled.
C8_TransformArithmetic ==
    pc = "returned" =>
      LET c == arg.coord[1]
          r == arg.coord[2]
          v == ret.value
      IN  /\ ret.fn = "floor_y" => 2 * v = -2 * arg.n_rows
          /\ ret.fn = "left_edge_x" => 2 * v = -2 * arg.n_lanes
          /\ ret.fn = "translate_to_board_center_top" =>
                /\ 2 * (v[1] - c) \in {arg.n_lanes, arg.n_lanes - 1}
                /\ v[2] = r + arg.n_rows
          /\ ret.fn = "board_to_physics" =>
                /\ v[1] + arg.n_lanes = 2 * c + 1
                /\ v[2] + arg.n_rows = 2 * r + 1
          /\ (ret.fn = "spawn_block" /\ arg.n_lanes = 10 /\ arg.n_rows = 20
                /\ arg.coord = <<0, 0>>) => v = <<1, 21>>

\* the local origin was transformed on the 10 x 20 board
C8_Witness ==
    /\ pc = "returned"
    /\ ret.fn = "spawn_block"
    /\ arg.n_lanes = 10 /\ arg.n_rows = 20
    /\ arg.coord = <<0, 0>>
    /\ ret.value = <<1, 21>>

\* the shape table of the specification (4.2): coordinates; joint index pairs
catalog_table ==
    [I |-> [coords |-> << <<1, 1>>, <<1, 0>>, <<1, -1>>, <<1, -2>> >>,
            joints |-> << <<0, 1>>, <<1, 2>>, <<2, 3>> >>],
     O |-> [coords |-> << <<0, 0>>, <<1, 0>>, <<1, -1>>, <<0, -1>> >>,
            joints |-> << <<0, 1>>, <<1, 2>>, <<2, 3>>, <<1, 0>> >>],
     T |-> [coords |-> << <<0, 0>>, <<1, 0>>, <<2, 0>>, <<1, -1>> >>,
            joints |-> << <<0, 1>>, <<1, 2>>, <<1, 3>> >>],
     J |-> [coords |-> << <<1, 0>>, <<1, -1>>, <<1, -2>>, <<0, -2>> >>,
            joints |-> << <<0, 1>>, <<1, 2>>, <<2, 3>> >>],
     L |-> [coords |-> << <<1, 0>>, <<1, -1>>, <<1, -2>>, <<2, -2>> >>,
            joints |-> << <<0, 1>>, <<1, 2>>, <<2, 3>> >>],
     S |-> [coords |-> << <<0, -1>>, <<1, -1>>, <<1, 0>>, <<2, 0>> >>,
            joints |-> << <<0, 1>>, <<1, 2>>, <<2, 3>> >>],
     Z |-> [coords |-> << <<0, 0>>, <<1, 0>>, <<1, -1>>, <<2, -1>> >>,
            joints |-> << <<0, 1>>, <<1, 2>>, <<2, 3>> >>]]

\* C9: for each of the 7 kinds, either copy of layout() returns 4 coordinates
\* and joint pairs (i, j) with 0 <= i, j < 4 and i # j, and the result is the
\* entry of the specification's shape table, in the same order.
C9_LayoutIsTheCatalog ==
    (pc = "returned" /\ ret.fn \in {"layout", "tetromino_layout"}) =>
      /\ DOMAIN catalog_table = TetrominoKind
      /\ Len(ret.value.coords) = 4
      /\ \A n \in 1..Len(ret.value.joints) :
            LET i == ret.value.joints[n][1]
                j == ret.value.joints[n][2]
            IN  i \in 0..3 /\ j \in 0..3 /\ i # j
      /\ ret.value = catalog_table[arg.kind]

\* the layout of main.rs was looked up for J
C9_Witness ==
    /\ pc = "returned"
    /\ ret.fn = "layout"
    /\ arg.kind = "J"
    /\ ret.value.coords[4] = <<0, -2>>
    /\ Len(ret.value.joints) = 3

\* the blocks a joint list links to block b
joint_neighbours(js, b) ==
    {c \in 0..3 : \E n \in 1..Len(js) : js[n] = <<b, c>> \/ js[n] = <<c, b>>}

\* the blocks reachable from block 0 through the joints of js
RECURSIVE joint_reach(_, _)
joint_reach(js, seen) ==
    LET more == seen \cup UNION {joint_neighbours(js, b) : b \in seen}
    IN  IF more = seen THEN seen ELSE joint_reach(js, more)

\* C10: the joints of O form a 4-cycle (4 joints, every block with exactly two
\* distinct joint neighbours) and the joints of every other shape form an open
\* chain of 3 joints, a path that visits all 4 blocks (two end blocks with one
\* neighbour, two inner blocks with two).
C10_SquareAndChains ==
    (pc = "returned" /\ ret.fn = "layout") =>
      LET js == ret.value.joints
          degree(b) == Cardinality(joint_neighbours(js, b))
      IN  /\ joint_reach(js, {0}) = 0..3
          /\ arg.kind = "O" =>
                /\ Len(js) = 4
                /\ \A b \in 0..3 : degree(b) = 2
          /\ arg.kind # "O" =>
                /\ Len(js) = 3
                /\ \A b \in 0..3 : degree(b) \in {1, 2}
                /\ Cardinality({b \in 0..3 : degree(b) = 1}) = 2

\* C11 as stated: a run of the Movement Controller or of the Settling Detector
\* on a Game without a piece ends in an error state, applies no force,
\* queues no despawn and assembles no piece.
C11_NoPieceIsFatal ==
    [][(pc \in {"tetromino_movement", "tetromino_sleep_detection"} /\ pc' # pc
          /\ game.current_tetromino_blocks = {}) =>
         /\ pc' = "panicked"
         /\ applied' = {}
         /\ commands' = commands
         /\ pieces' = pieces]_vars

\* C11 as amended: neither system fails on a Game without a piece. The Movement
\* Controller applies no force and hands over to the detector; the Settling
\* Detector finds all of no blocks at rest, so it queues no despawn (no joint
\* is recorded), takes a fresh color and assembles a piece of 4 blocks, as in
\* any settling tick.
C11_NoPieceIsAssembled ==
    [][(pc \in {"tetromino_movement", "tetromino_sleep_detection"} /\ pc' # pc
          /\ game.current_tetromino_blocks = {}) =>
         /\ pc' # "panicked"
         /\ pc = "tetromino_movement" =>
               /\ pc' = "tetromino_sleep_detection"
               /\ applied' = {}
               /\ game' = game /\ commands' = commands /\ pieces' = pieces
         /\ pc = "tetromino_sleep_detection" =>
               /\ pc' = "update_end"
               /\ Len(pieces') = Len(pieces) + 1
               /\ Cardinality(game'.current_tetromino_blocks) = 4
               /\ game'.block_color \notin {None, game.block_color}
               /\ \A i \in 1..Len(commands') : commands'[i].op # "despawn"
               /\ Cardinality({i \in 1..Len(commands') : commands'[i].op = "spawn_block"}) = 4]_vars

\* the detector has run on a Game without a piece and without a color: the
\* first piece is assembled and waits in the command queue
C11_Witness ==
    /\ pc = "update_end"
    /\ Len(pieces) = 1
    /\ DOMAIN blocks = {}
    /\ despawned = <<>>
    /\ Len(commands) >= 7
    /\ pieces[1].color = 2

C13_ForceNeverPutsToRest ==
    [][(pc = "tetromino_movement" /\ pc' # pc) =>
         /\ sleeping' \subseteq sleeping
         /\ \A f \in applied' : f[1] \notin sleeping'
         /\ all_blocks_sleeping(game', registered', sleeping') =>
               all_blocks_sleeping(game, registered, sleeping)
         /\ applied' # {} => ~all_blocks_sleeping(game', registered', sleeping')]_vars

\* the world step of the tick came first, then the controller pushed all 4
\* blocks of the second piece: none of them is at rest
C13_Witness ==
    /\ pc = "tetromino_sleep_detection"
    /\ stepped
    /\ Len(pieces) = 2
    /\ Cardinality(applied) = 4
    /\ game.current_tetromino_blocks \cap sleeping = {}

\* C14: for every kind and every joint pair (i, j) of its layout, with
\* d = coords[j] - coords[i], the joint links block i to block j, its anchor on
\* block i is +d/2 and its anchor on block j is -d/2 (values doubled here, as
\* all physics values); so for blocks in their spawn orientation the two anchor
\* points coincide exactly when position(j) - position(i) = d.
C14_AnchorsPinDesignedOffset ==
    (pc = "returned" /\ ret.fn = "spawn_joint") =>
      LET lay == layout(arg.kind)
      IN  /\ Len(ret.value) = Len(lay.joints)
          /\ \A n \in 1..Len(lay.joints) :
                LET i == lay.joints[n][1]
                    j == lay.joints[n][2]
                    d == <<lay.coords[j + 1][1] - lay.coords[i + 1][1],
                           lay.coords[j + 1][2] - lay.coords[i + 1][2]>>
                    joint == ret.value[n]
                IN  /\ joint.body1 = i + 1
                    /\ joint.body2 = j + 1
                    /\ joint.anchor_1 = d
                    /\ joint.anchor_2 = <<-d[1], -d[2]>>
                    \* offset: twice position(j) - position(i)
                    /\ \A offset \in Coords :
                          (joint.anchor_1 = <<offset[1] + joint.anchor_2[1],
                                              offset[2] + joint.anchor_2[2]>>)
                             <=> offset = <<2 * d[1], 2 * d[2]>>

\* the joints of T have been built; the third one hangs block 3 under block 1
C14_Witness ==
    /\ pc = "returned"
    /\ ret.fn = "spawn_joint"
    /\ arg.kind = "T"
    /\ ret.value[3].anchor_1 = <<0, -1>>
    /\ ret.value[3].anchor_2 = <<0, 1>>
    /\ ret.value[3].body1 = 2
    /\ ret.value[3].body2 = 4

\* C15: a Movement Controller step leaves the Game as it was (active block
\* set, active joints, color). The active block set and the active joints
\* change only in a step that assembles a piece: setup_initial_tetromino at
\* startup, tetromino_sleep_detection afterwards; the new value is that piece.
C15_OnlyAssemblerWritesActivePiece ==
    [][/\ (pc = "tetromino_movement" /\ pc' # pc) =>
             /\ game'.current_tetromino_blocks = game.current_tetromino_blocks
             /\ game'.current_tetromino_joints = game.current_tetromino_joints
             /\ game'.block_color = game.block_color
       /\ (\/ game'.current_tetromino_blocks # game.current_tetromino_blocks
           \/ game'.current_tetromino_joints # game.current_tetromino_joints) =>
             /\ Len(pieces') = Len(pieces) + 1
             /\ game'.current_tetromino_blocks = Range(pieces'[Len(pieces')].blocks)
             /\ game'.current_tetromino_joints = pieces'[Len(pieces')].joints
             /\ IF pieces = <<>>
                THEN pc = "setup_initial_tetromino"
                ELSE pc = "tetromino_sleep_detection"]_vars

\* the controller has pushed the second piece, which the detector assembled:
\* the Game still records exactly that piece
C15_Witness ==
    /\ pc = "tetromino_sleep_detection"
    /\ Len(pieces) = 2
    /\ Cardinality(applied) = 4
    /\ game.current_tetromino_blocks = Range(pieces[2].blocks)
    /\ game.current_tetromino_joints = pieces[2].joints

\* C16: the floor is centred at x = 0, is n_lanes wide from left_edge_x to
\* -left_edge_x, and its top is at floor_y, for every board; a block at board
\* row 0 has its centre half a cell above floor_y and its bottom face, half
\* its height below the centre, on the top of the floor.
C16_FloorTopAtFloorY ==
    (pc = "returned" /\ ret.fn = "floor_body") =>
      LET body == ret.value
          top == body.translation[2] + body.half_extents[2]
          block == spawn_block(arg_game, 1, arg.kind, arg.coord)
          centre == board_to_physics(arg_game, <<arg.coord[1], 0>>)
      IN  /\ body.translation[1] = 0
          /\ body.half_extents[1] + body.half_extents[1] = 2 * arg.n_lanes
          /\ body.translation[1] - body.half_extents[1] = left_edge_x(arg_game)
          /\ body.translation[1] + body.half_extents[1] = -left_edge_x(arg_game)
          /\ top = floor_y(arg_game)
          /\ centre[2] = floor_y(arg_game) + 1
          /\ centre[2] - block.half_extents[2] = top

\* the floor of the 10 x 20 board has been built: 10 wide, top at -10
C16_Witness ==
    /\ pc = "returned"
    /\ ret.fn = "floor_body"
    /\ arg.n_lanes = N_LANES
    /\ arg.n_rows = N_ROWS
    /\ ret.value.translation = <<0, -22>>
    /\ ret.value.half_extents = <<10, 2>>

\* C17: a detector step that finds at least one active block not registered
\* with the physics world does not settle the piece, whatever the rest flags of
\* the other blocks: no piece is assembled, nothing is queued, the Game is
\* unchanged.
C17_UnregisteredBlockNeverSettles ==
    [][(/\ pc = "tetromino_sleep_detection"
        /\ pc' # pc
        /\ game.current_tetromino_blocks \ registered # {}) =>
         /\ pc' = "update_end"
         /\ pieces' = pieces
         /\ game' = game
         /\ commands' = commands
         /\ next_entity' = next_entity]_vars

\* the detector has run, after the world step of the tick, on a first piece
\* with 3 blocks registered and at rest and 1 block not yet registered: the
\* piece is still the active one
C17_Witness ==
    /\ pc = "update_end"
    /\ stepped
    /\ Len(pieces) = 1
    /\ Cardinality(game.current_tetromino_blocks \ registered) = 1
    /\ Cardinality(game.current_tetromino_blocks \cap sleeping) = 3
    /\ commands = <<>>

\* the joint an entity carries, in the world or still in the command queue
joint_of(e) ==
    IF e \in DOMAIN joints
    THEN joints[e]
    ELSE LET i == CHOOSE i \in 1..Len(commands) :
                     commands[i].op = "spawn_joint" /\ commands[i].entity = e
         IN  commands[i]

\* the block entities reachable from those of seen through the joints of js
RECURSIVE linked_blocks(_, _)
linked_blocks(js, seen) ==
    LET more == seen \cup {joint_of(e).body2 : e \in {e \in js : joint_of(e).body1 \in seen}}
                     \cup {joint_of(e).body1 : e \in {e \in js : joint_of(e).body2 \in seen}}
    IN  IF more = seen THEN seen ELSE linked_blocks(js, more)

\* C18: the joint pairs of the layout of the active piece's kind connect all 4
\* block indices, and the joints built for the active piece, from their
\* assembly on, link its 4 blocks into one assembly: every block is reachable
\* from the first block, hence from every other block, through joints.
C18_ActivePieceIsOneAssembly ==
    (pieces # <<>> /\ pc # "panicked") =>
      LET piece == pieces[Len(pieces)]
          js == Range(piece.joints)
      IN  /\ joint_reach(layout(piece.kind).joints, {0}) = 0..3
          /\ game.current_tetromino_joints = piece.joints
          /\ \A e \in js :
                \/ e \in DOMAIN joints
                \/ \E i \in 1..Len(commands) :
                      commands[i].op = "spawn_joint" /\ commands[i].entity = e
          /\ linked_blocks(js, {piece.blocks[1]}) = game.current_tetromino_blocks

\* a T piece is the active piece and its 3 joints are in the world, all of
\* them on its second block
C18_Witness ==
    /\ pc = "tetromino_movement"
    /\ Len(pieces) = 2
    /\ pieces[2].kind = "T"
    /\ Range(pieces[2].joints) \subseteq DOMAIN joints
    /\ \A e \in Range(pieces[2].joints) :
          pieces[2].blocks[2] \in {joints[e].body1, joints[e].body2}

\* C19: for every kind the 4 layout coordinates are pairwise distinct and every
\* joint pair links two edge-adjacent cells (distance 1 on one axis, 0 on the
\* other), so each joint has its anchors at the middle of the shared face:
\* half a cell on one axis and 0 on the other, opposite on the two blocks
\* (values doubled here).
C19_JointsOnSharedFaces ==
    (pc = "returned" /\ ret.fn = "spawn_joint") =>
      LET lay == layout(arg.kind)
          abs(n) == IF n < 0 THEN -n ELSE n
          face_centres == {<<1, 0>>, <<-1, 0>>, <<0, 1>>, <<0, -1>>}
      IN  /\ Len(lay.coords) = 4
          /\ \A k \in 1..4 : \A l \in 1..4 : lay.coords[k] = lay.coords[l] => k = l
          /\ \A n \in 1..Len(lay.joints) :
                LET a == lay.coords[lay.joints[n][1] + 1]
                    b == lay.coords[lay.joints[n][2] + 1]
                IN  /\ {abs(b[1] - a[1]), abs(b[2] - a[2])} = {0, 1}
                    /\ ret.value[n].anchor_1 \in face_centres
                    /\ ret.value[n].anchor_2 = <<-ret.value[n].anchor_1[1],
                                                 -ret.value[n].anchor_1[2]>>

\* the joints of O have been built: the last one, the pair (1, 0), has its
\* anchors on the face shared by the two top cells
C19_Witness ==
    /\ pc = "returned"
    /\ ret.fn = "spawn_joint"
    /\ arg.kind = "O"
    /\ Len(ret.value) = 4
    /\ ret.value[4].anchor_1 = <<-1, 0>>
    /\ ret.value[4].anchor_2 = <<1, 0>>

=============================================================================
